---- MODULE Spec2Model ----
(***************************************************************************)
(* Model of the prole CLI (PROLE-ISLAND/dev-tools): the template           *)
(* synchronisation commands init / sync / validate acting on a working     *)
(* directory, and the organisation template repository they fetch from.    *)
(*                                                                         *)
(* Text is a sequence of one-character strings.  "n" is a newline (the     *)
(* only whitespace that occurs), "#","M" are the two characters of the     *)
(* organisation-section marker; every other character is ordinary text.    *)
(* Built-in boilerplate of the program is abbreviated to one character per *)
(* block ("H", "L", "D", ...); none of it contains whitespace at its ends  *)
(* that matters or the marker.                                             *)
(***************************************************************************)
EXTENDS Integers, Sequences, FiniteSets, TLC

VARIABLES fs, last

vars == <<fs, last>>

\* null / undefined / an absent file; no text equals it
NULL == <<"null">>

(***************************************************************************)
(* String primitives of the JavaScript runtime                             *)
(***************************************************************************)
Whitespace == {"n", " "}

IsBlank(s) == \A i \in 1..Len(s) : s[i] \in Whitespace

\* String.prototype.trim: drop leading and trailing whitespace
Trim(s) ==
  IF IsBlank(s) THEN <<>>
  ELSE LET first == CHOOSE i \in 1..Len(s) :
                      /\ s[i] \notin Whitespace
                      /\ \A j \in 1..(i - 1) : s[j] \in Whitespace
           lst   == CHOOSE i \in 1..Len(s) :
                      /\ s[i] \notin Whitespace
                      /\ \A j \in (i + 1)..Len(s) : s[j] \in Whitespace
       IN SubSeq(s, first, lst)

\* positions at which m occurs in s (1-based)
Occurrences(s, m) ==
  {i \in 1..(Len(s) - Len(m) + 1) : SubSeq(s, i, i + Len(m) - 1) = m}

\* String.prototype.includes
Includes(s, m) == Occurrences(s, m) # {}

\* s.split(m)[0]: the text before the first occurrence of m (all of s if none)
SplitHead(s, m) ==
  IF Includes(s, m)
  THEN LET i == CHOOSE k \in Occurrences(s, m) :
                  \A j \in Occurrences(s, m) : k <= j
       IN SubSeq(s, 1, i - 1)
  ELSE s

\* the text after the first occurrence of m
AfterFirst(s, m) ==
  LET i == CHOOSE k \in Occurrences(s, m) : \A j \in Occurrences(s, m) : k <= j
  IN SubSeq(s, i + Len(m), Len(s))

\* String.prototype.endsWith, on names kept as <<stem, extension>>
EndsWith(name, ext) == name[Len(name)] = ext

\* JavaScript truthiness of a string | null value
Truthy(v) == v # NULL /\ v # <<>>

(***************************************************************************)
(* The working directory: which directories exist and what each file holds *)
(***************************************************************************)
Parent(d) == IF d \in {"issue", "workflows"} THEN "github" ELSE "root"

ClaudeMdPath   == [dir |-> "root",   name |-> <<"CLAUDE", ".md">>]
PrPath         == [dir |-> "github", name |-> <<"PULL_REQUEST_TEMPLATE", ".md">>]
DependabotPath == [dir |-> "github", name |-> <<"dependabot", ".yml">>]
SettingsPath   == [dir |-> "claude", name |-> <<"settings", ".json">>]
HooksPath      == [dir |-> "claude", name |-> <<"hooks", ".json">>]
IssuePath(n)    == [dir |-> "issue",     name |-> n]
WorkflowPath(n) == [dir |-> "workflows", name |-> n]

\* fs.pathExists
pathExists(st, p) == st.files[p] # NULL

dirExists(st, d) == d = "root" \/ d \in st.dirs

\* fs.ensureDir: create the directory and its missing parents
ensureDir(st, d) ==
  IF d = "root" THEN st
  ELSE [st EXCEPT !.dirs = @ \cup {d} \cup (IF Parent(d) = "root" THEN {} ELSE {Parent(d)})]

\* fs.writeFile
writeFile(st, p, content) == [st EXCEPT !.files[p] = content]

\* fs.readFile
readFile(st, p) == st.files[p]

(***************************************************************************)
(* sync.ts                                                                 *)
(***************************************************************************)
\* '# 組織共通ルール（PROLE-ISLAND/.github より）'
orgSectionMarker == <<"#", "M">>

\* the '\n\n' written between the marker and the organisation text
BlankLine == <<"n", "n">>

\* checkAndUpdate with the dryRun test of the create branch left out
checkAndUpdate_CreateIgnoresDryRun(st, filePath, newContent, options) ==
  IF ~pathExists(st, filePath)
  THEN [fs |-> writeFile(ensureDir(st, filePath.dir), filePath, newContent),
        action |-> "create"]
  ELSE IF Trim(readFile(st, filePath)) = Trim(newContent)
  THEN [fs |-> st, action |-> "skip"]
  ELSE [fs |-> IF ~options.dryRun THEN writeFile(st, filePath, newContent) ELSE st,
        action |-> "update"]

\* checkAndUpdate overwriting a differing file only under --force
checkAndUpdate_WritesOnlyWithForce(st, filePath, newContent, options) ==
  IF ~pathExists(st, filePath)
  THEN [fs |-> IF ~options.dryRun
               THEN writeFile(ensureDir(st, filePath.dir), filePath, newContent)
               ELSE st,
        action |-> "create"]
  ELSE IF Trim(readFile(st, filePath)) = Trim(newContent)
  THEN [fs |-> st, action |-> "skip"]
  ELSE [fs |-> IF ~options.dryRun /\ options.force
               THEN writeFile(st, filePath, newContent) ELSE st,
        action |-> "update"]

\* checkAndUpdate comparing the contents without trimming them
checkAndUpdate_NoTrim(st, filePath, newContent, options) ==
  IF ~pathExists(st, filePath)
  THEN [fs |-> IF ~options.dryRun
               THEN writeFile(ensureDir(st, filePath.dir), filePath, newContent)
               ELSE st,
        action |-> "create"]
  ELSE IF readFile(st, filePath) = newContent
  THEN [fs |-> st, action |-> "skip"]
  ELSE [fs |-> IF ~options.dryRun THEN writeFile(st, filePath, newContent) ELSE st,
        action |-> "update"]

\* checkAndUpdate leaving a differing file alone unless --force is given
checkAndUpdate_SkipsWithoutForce(st, filePath, newContent, options) ==
  IF ~pathExists(st, filePath)
  THEN [fs |-> IF ~options.dryRun
               THEN writeFile(ensureDir(st, filePath.dir), filePath, newContent)
               ELSE st,
        action |-> "create"]
  ELSE IF Trim(readFile(st, filePath)) = Trim(newContent)
  THEN [fs |-> st, action |-> "skip"]
  ELSE IF options.force
  THEN [fs |-> IF ~options.dryRun THEN writeFile(st, filePath, newContent) ELSE st,
        action |-> "update"]
  ELSE [fs |-> st, action |-> "skip"]

checkAndUpdate(st, filePath, newContent, options) ==
  IF ~pathExists(st, filePath)
  THEN [fs |-> IF ~options.dryRun
               THEN writeFile(ensureDir(st, filePath.dir), filePath, newContent)
               ELSE st,
        action |-> "create"]
  ELSE LET currentContent == readFile(st, filePath) IN
       IF Trim(currentContent) = Trim(newContent)
       THEN [fs |-> st, action |-> "skip"]
       ELSE IF ~options.dryRun /\ options.force
       THEN [fs |-> writeFile(st, filePath, newContent), action |-> "update"]
       ELSE [fs |-> IF ~options.dryRun THEN writeFile(st, filePath, newContent) ELSE st,
             action |-> "update"]

\* the project-owned header written in front of the marker.  "H": the lines
\* '# プロジェクト固有の開発ルール' to '## 技術スタック', then the technology
\* stack, then the rule '---' ("-") between blank lines
ProjectHeader(techStack) == <<"H">> \o techStack \o <<"n", "-", "n">>

\* sync writes the header with the Next.js stack ("x")
SyncHeader == ProjectHeader(<<"x">>)

\* the text before the last occurrence of m
SplitBeforeLast(s, m) ==
  IF Includes(s, m)
  THEN LET i == CHOOSE k \in Occurrences(s, m) :
                  \A j \in Occurrences(s, m) : k >= j
       IN SubSeq(s, 1, i - 1)
  ELSE s

\* updateClaudeMdOrgSection adding the organisation section to a document
\* that has no marker
updateClaudeMdOrgSection_AddsSection(st, filePath, orgContent, options) ==
  IF ~pathExists(st, filePath)
  THEN LET newContent == SyncHeader \o orgSectionMarker \o BlankLine \o orgContent \o <<"n">>
       IN [fs |-> IF ~options.dryRun THEN writeFile(st, filePath, newContent) ELSE st,
           action |-> "create"]
  ELSE LET currentContent == readFile(st, filePath)
           newContent == SplitHead(currentContent, orgSectionMarker)
                           \o orgSectionMarker \o BlankLine \o orgContent
       IN IF Trim(currentContent) = Trim(newContent)
          THEN [fs |-> st, action |-> "skip"]
          ELSE [fs |-> IF ~options.dryRun THEN writeFile(st, filePath, newContent) ELSE st,
                action |-> "update"]

\* updateClaudeMdOrgSection cutting the document at its last marker
updateClaudeMdOrgSection_CutsAtLastMarker(st, filePath, orgContent, options) ==
  IF ~pathExists(st, filePath)
  THEN LET newContent == SyncHeader \o orgSectionMarker \o BlankLine \o orgContent \o <<"n">>
       IN [fs |-> IF ~options.dryRun THEN writeFile(st, filePath, newContent) ELSE st,
           action |-> "create"]
  ELSE LET currentContent == readFile(st, filePath) IN
       IF Includes(currentContent, orgSectionMarker)
       THEN LET newContent == SplitBeforeLast(currentContent, orgSectionMarker)
                                \o orgSectionMarker \o BlankLine \o orgContent
            IN IF Trim(currentContent) = Trim(newContent)
               THEN [fs |-> st, action |-> "skip"]
               ELSE [fs |-> IF ~options.dryRun
                            THEN writeFile(st, filePath, newContent) ELSE st,
                     action |-> "update"]
       ELSE [fs |-> st, action |-> "skip"]

\* updateClaudeMdOrgSection rebuilding the document from the built-in header
updateClaudeMdOrgSection_RebuildsHeader(st, filePath, orgContent, options) ==
  IF ~pathExists(st, filePath)
  THEN LET newContent == SyncHeader \o orgSectionMarker \o BlankLine \o orgContent \o <<"n">>
       IN [fs |-> IF ~options.dryRun THEN writeFile(st, filePath, newContent) ELSE st,
           action |-> "create"]
  ELSE LET currentContent == readFile(st, filePath) IN
       IF Includes(currentContent, orgSectionMarker)
       THEN LET newContent == SyncHeader \o orgSectionMarker \o BlankLine \o orgContent
            IN IF Trim(currentContent) = Trim(newContent)
               THEN [fs |-> st, action |-> "skip"]
               ELSE [fs |-> IF ~options.dryRun
                            THEN writeFile(st, filePath, newContent) ELSE st,
                     action |-> "update"]
       ELSE [fs |-> st, action |-> "skip"]

\* updateClaudeMdOrgSection comparing the documents without trimming them
updateClaudeMdOrgSection_NoTrim(st, filePath, orgContent, options) ==
  IF ~pathExists(st, filePath)
  THEN LET newContent == SyncHeader \o orgSectionMarker \o BlankLine \o orgContent \o <<"n">>
       IN [fs |-> IF ~options.dryRun THEN writeFile(st, filePath, newContent) ELSE st,
           action |-> "create"]
  ELSE LET currentContent == readFile(st, filePath) IN
       IF Includes(currentContent, orgSectionMarker)
       THEN LET newContent == SplitHead(currentContent, orgSectionMarker)
                                \o orgSectionMarker \o BlankLine \o orgContent
            IN IF currentContent = newContent
               THEN [fs |-> st, action |-> "skip"]
               ELSE [fs |-> IF ~options.dryRun
                            THEN writeFile(st, filePath, newContent) ELSE st,
                     action |-> "update"]
       ELSE [fs |-> st, action |-> "skip"]

updateClaudeMdOrgSection(st, filePath, orgContent, options) ==
  IF ~pathExists(st, filePath)
  THEN LET newContent == SyncHeader \o orgSectionMarker \o BlankLine \o orgContent \o <<"n">>
       IN [fs |-> IF ~options.dryRun THEN writeFile(st, filePath, newContent) ELSE st,
           action |-> "create"]
  ELSE LET currentContent == readFile(st, filePath) IN
       IF Includes(currentContent, orgSectionMarker)
       THEN LET newContent == SplitHead(currentContent, orgSectionMarker)
                                \o orgSectionMarker \o BlankLine \o orgContent
            IN IF Trim(currentContent) = Trim(newContent)
               THEN [fs |-> st, action |-> "skip"]
               ELSE [fs |-> IF ~options.dryRun
                            THEN writeFile(st, filePath, newContent) ELSE st,
                     action |-> "update"]
       ELSE [fs |-> st, action |-> "skip"]

\* one loop of syncCommand over Object.entries(...) of a bundle map, which is
\* kept as the sequence of its [name, content] entries in insertion order
RECURSIVE syncEntries(_, _, _, _, _)
syncEntries(st, changes, dir, entries, options) ==
  IF entries = <<>> THEN [fs |-> st, changes |-> changes]
  ELSE LET e == Head(entries)
           r == checkAndUpdate(st, [dir |-> dir, name |-> e.name], e.content, options)
       IN syncEntries(r.fs, Append(changes, [file |-> [dir |-> dir, name |-> e.name],
                                             action |-> r.action]),
                      dir, Tail(entries), options)

\* syncCommand going through the workflows before the pull-request template
syncRun_WorkflowsBeforePr(st, templates, options) ==
  LET s1 == syncEntries(ensureDir(st, "issue"), <<>>, "issue",
                        templates.issueTemplates, options)
      s2 == syncEntries(ensureDir(s1.fs, "workflows"), s1.changes, "workflows",
                        templates.workflows, options)
      s3 == IF Truthy(templates.prTemplate)
            THEN LET r == checkAndUpdate(s2.fs, PrPath, templates.prTemplate, options)
                 IN [fs |-> r.fs,
                     changes |-> Append(s2.changes, [file |-> PrPath, action |-> r.action])]
            ELSE s2
      s4 == IF Truthy(templates.claudeMd)
            THEN LET r == updateClaudeMdOrgSection(s3.fs, ClaudeMdPath,
                                                   templates.claudeMd, options)
                 IN [fs |-> r.fs,
                     changes |-> Append(s3.changes,
                                        [file |-> ClaudeMdPath, action |-> r.action])]
            ELSE s3
  IN s4

\* the body of syncCommand's try block: the final filesystem and the changes
syncRun(st, templates, options) ==
  LET s1 == syncEntries(ensureDir(st, "issue"), <<>>, "issue",
                        templates.issueTemplates, options)
      s2 == IF Truthy(templates.prTemplate)
            THEN LET r == checkAndUpdate(s1.fs, PrPath, templates.prTemplate, options)
                 IN [fs |-> r.fs,
                     changes |-> Append(s1.changes, [file |-> PrPath, action |-> r.action])]
            ELSE s1
      s3 == syncEntries(ensureDir(s2.fs, "workflows"), s2.changes, "workflows",
                        templates.workflows, options)
      s4 == IF Truthy(templates.claudeMd)
            THEN LET r == updateClaudeMdOrgSection(s3.fs, ClaudeMdPath,
                                                   templates.claudeMd, options)
                 IN [fs |-> r.fs,
                     changes |-> Append(s3.changes,
                                        [file |-> ClaudeMdPath, action |-> r.action])]
            ELSE s3
  IN s4

(***************************************************************************)
(* Fetching the organisation templates (sync.ts; init.ts has the same code *)
(* inside one more try/catch)                                              *)
(*                                                                         *)
(* remote: what PROLE-ISLAND/.github holds - claudeMd and prTemplate are   *)
(* texts, issueTemplates and workflows the directory listings as sequences *)
(* of [name, content].  down: the requests that fail, "CLAUDE.md",         *)
(* "PULL_REQUEST_TEMPLATE.md", the listings "ISSUE_TEMPLATE" and           *)
(* "workflow-templates", each as a one-element path, and the directory     *)
(* followed by the name for one listed file.                               *)
(***************************************************************************)
\* fetchGitHubFile: stdout of the request, null when it throws
fetchGitHubFile(content, key, down) == IF key \in down THEN NULL ELSE content

\* listGitHubDirectory: the names listed, [] when the request throws
listGitHubDirectory(listing, key, down) == IF key \in down THEN <<>> ELSE listing

\* fetchListed giving up the rest of a listing at the first file that fails
fetchListed_StopsAtFailure(listing, key, exts, down) ==
  LET all == listGitHubDirectory(listing, key, down)
      ok(i) == (key \o all[i].name) \notin down
      upTo == IF \A i \in 1..Len(all) : ok(i) THEN Len(all)
              ELSE (CHOOSE i \in 1..Len(all) : ~ok(i) /\ \A j \in 1..(i - 1) : ok(j)) - 1
  IN SelectSeq(SubSeq(all, 1, upTo),
               LAMBDA e : /\ \E x \in exts : EndsWith(e.name, x)
                          /\ Truthy(fetchGitHubFile(e.content, key \o e.name, down)))

\* the for-loop over a listing: keep the files with an accepted extension whose
\* fetch gave a non-empty text
fetchListed(listing, key, exts, down) ==
  SelectSeq(listGitHubDirectory(listing, key, down),
            LAMBDA e : /\ \E x \in exts : EndsWith(e.name, x)
                       /\ Truthy(fetchGitHubFile(e.content, key \o e.name, down)))

fetchOrgTemplates(remote, down) ==
  [claudeMd       |-> fetchGitHubFile(remote.claudeMd, <<"CLAUDE.md">>, down),
   issueTemplates |-> fetchListed(remote.issueTemplates, <<"ISSUE_TEMPLATE">>,
                                  {".yml", ".yaml"}, down),
   prTemplate     |-> fetchGitHubFile(remote.prTemplate, <<"PULL_REQUEST_TEMPLATE.md">>, down),
   workflows      |-> fetchListed(remote.workflows, <<"workflow-templates">>, {".yml"}, down)]

\* availableWorkflows[filename] of a bundle map: the content, NULL when absent
lookup(entries, name) ==
  IF \E i \in 1..Len(entries) : entries[i].name = name
  THEN entries[CHOOSE i \in 1..Len(entries) : entries[i].name = name].content
  ELSE NULL

(***************************************************************************)
(* init.ts                                                                 *)
(***************************************************************************)
\* TEMPLATE_WORKFLOWS: the same list for every template
TEMPLATE_WORKFLOWS == << <<"ci", ".yml">>, <<"pr-check", ".yml">> >>

\* w.endsWith('.yml') ? w : `${w}.yml`
withYml(w) == IF EndsWith(w, ".yml") THEN w ELSE Append(w, ".yml")

\* options.workflows is NULL or the requested names, already split and trimmed
determineWorkflows(availableWorkflows, options) ==
  IF options.allWorkflows
  THEN [i \in 1..Len(availableWorkflows) |-> availableWorkflows[i].name]
  ELSE IF options.workflows # NULL /\ options.workflows # <<>>
  THEN LET valid == SelectSeq(options.workflows,
                              LAMBDA w : Truthy(lookup(availableWorkflows, withYml(w))))
       IN [i \in 1..Len(valid) |-> withYml(valid[i])]
  ELSE SelectSeq(TEMPLATE_WORKFLOWS, LAMBDA w : Truthy(lookup(availableWorkflows, w)))

\* writeFileIfNotExists keeping an existing file even with force
writeFileIfNotExists_NeverOverwrites(st, filePath, content, force) ==
  IF pathExists(st, filePath) THEN st ELSE writeFile(st, filePath, content)

\* writeFileIfNotExists writing whether or not the file exists
writeFileIfNotExists_AlwaysWrites(st, filePath, content, force) ==
  writeFile(st, filePath, content)

writeFileIfNotExists(st, filePath, content, force) ==
  IF ~force /\ pathExists(st, filePath) THEN st ELSE writeFile(st, filePath, content)

\* the technology-stack block: "x" Next.js, "s" Storyblok, "y" library
getTechStackForTemplate(template) ==
  CASE template = "storyblok" -> <<"s">>
    [] template = "library"   -> <<"y">>
    [] OTHER                  -> <<"x">>

\* the dependabot.yml and settings.json init writes, the ci.yml of the fallback
DependabotYml == <<"d">>
SettingsJson  == <<"J">>
LocalCiYml    == <<"c">>

RECURSIVE writeEntries(_, _, _, _)
writeEntries(st, dir, entries, force) ==
  IF entries = <<>> THEN st
  ELSE writeEntries(writeFileIfNotExists(st, [dir |-> dir, name |-> Head(entries).name],
                                         Head(entries).content, force),
                    dir, Tail(entries), force)

createGitHubStructure(st, templates, selectedWorkflows, options) ==
  LET s0 == ensureDir(ensureDir(st, "workflows"), "issue")
      s1 == writeEntries(s0, "issue", templates.issueTemplates, options.force)
      s2 == IF Truthy(templates.prTemplate)
            THEN writeFileIfNotExists(s1, PrPath, templates.prTemplate, options.force)
            ELSE s1
      selected == [i \in 1..Len(selectedWorkflows) |->
                     [name |-> selectedWorkflows[i],
                      content |-> lookup(templates.workflows, selectedWorkflows[i])]]
      s3 == writeEntries(s2, "workflows",
                         SelectSeq(selected, LAMBDA e : Truthy(e.content)), options.force)
  IN writeFileIfNotExists(s3, DependabotPath, DependabotYml, options.force)

\* createLocalClaudeMd ending its document with the heading of the
\* organisation section
createLocalClaudeMd_WithMarker(st, options) ==
  writeFileIfNotExists(st, ClaudeMdPath,
    <<"L">> \o getTechStackForTemplate(options.template) \o <<"n", "D", "n">>
      \o orgSectionMarker \o BlankLine,
    options.force)

\* "L": '# プロジェクト開発ルール ... ## 技術スタック'; "D": the built-in
\* issue-driven-development and quality sections
createLocalClaudeMd(st, options) ==
  writeFileIfNotExists(st, ClaudeMdPath,
    <<"L">> \o getTechStackForTemplate(options.template) \o <<"n", "D", "n">>,
    options.force)

\* createClaudeMd heading the organisation part with another line
createClaudeMd_OtherMarker(st, templates, options) ==
  IF Truthy(templates.claudeMd)
  THEN writeFileIfNotExists(st, ClaudeMdPath,
         ProjectHeader(getTechStackForTemplate(options.template))
           \o <<"#", "m">> \o BlankLine \o templates.claudeMd \o <<"n">>,
         options.force)
  ELSE createLocalClaudeMd(st, options)

createClaudeMd(st, templates, options) ==
  IF Truthy(templates.claudeMd)
  THEN writeFileIfNotExists(st, ClaudeMdPath,
         ProjectHeader(getTechStackForTemplate(options.template))
           \o orgSectionMarker \o BlankLine \o templates.claudeMd \o <<"n">>,
         options.force)
  ELSE createLocalClaudeMd(st, options)

createClaudeConfig(st, options) ==
  writeFileIfNotExists(ensureDir(st, "claude"), SettingsPath, SettingsJson, options.force)

createLocalTemplates(st, options) ==
  LET s0 == ensureDir(ensureDir(st, "workflows"), "issue")
      s1 == writeFileIfNotExists(s0, WorkflowPath(<<"ci", ".yml">>), LocalCiYml, options.force)
  IN createClaudeConfig(createLocalClaudeMd(s1, options), options)

\* initCommand.  thrownAt names the step of the try block at which a filesystem
\* call throws ("none": nothing throws); what was written before stays, and the
\* catch block runs createLocalTemplates
initRun(st, templates, options, thrownAt) ==
  LET selectedWorkflows == determineWorkflows(templates.workflows, options)
      s1 == createGitHubStructure(st, templates, selectedWorkflows, options)
      s2 == createClaudeMd(s1, templates, options)
      s3 == createClaudeConfig(s2, options)
  IN CASE thrownAt = "github"   -> createLocalTemplates(st, options)
       [] thrownAt = "claudeMd" -> createLocalTemplates(s1, options)
       [] thrownAt = "config"   -> createLocalTemplates(s2, options)
       [] OTHER                 -> s3

(***************************************************************************)
(* validate.ts                                                             *)
(***************************************************************************)
\* length of the organisation text validateOrgSync looks for
OrgPrefixLength == 100

\* slice(0, k) left out: the whole text
SliceTo_Whole(s, k) == s

\* String.prototype.slice(0, k)
SliceTo(s, k) == SubSeq(s, 1, IF Len(s) < k THEN Len(s) ELSE k)

Result(name, status, fixable) == [name |-> name, status |-> status, fixable |-> fixable]

\* fs.readdir: the names of the files of a directory
readdir(st, d) == {p.name : p \in {q \in DOMAIN st.files : q.dir = d /\ st.files[q] # NULL}}

validateClaudeMd(st) ==
  IF ~pathExists(st, ClaudeMdPath) THEN Result("CLAUDE.md", "fail", TRUE)
  ELSE IF ~Includes(readFile(st, ClaudeMdPath), orgSectionMarker)
  THEN Result("CLAUDE.md", "warn", TRUE)
  ELSE Result("CLAUDE.md", "pass", FALSE)

\* validateClaudeSettings taking a text that does not parse for an object
\* without permissions.allow
validateClaudeSettings_WarnsOnGarbage(st) ==
  IF ~pathExists(st, SettingsPath) THEN Result(".claude/settings.json", "fail", TRUE)
  ELSE IF readFile(st, SettingsPath) \in {<<"J">>, <<"K">>}
  THEN Result(".claude/settings.json", "pass", FALSE)
  ELSE Result(".claude/settings.json", "warn", TRUE)

\* JSON.parse of the settings text: <<"J">> (written by init) and <<"K">>
\* (written by claude --setup) are objects with permissions.allow, <<"j">> is an
\* object without it; <<"N">> is the JSON text null, on which reading
\* settings.permissions throws inside the try block; any other text does not
\* parse
validateClaudeSettings(st) ==
  IF ~pathExists(st, SettingsPath) THEN Result(".claude/settings.json", "fail", TRUE)
  ELSE LET content == readFile(st, SettingsPath) IN
       IF content \notin {<<"J">>, <<"K">>, <<"j">>}
       THEN Result(".claude/settings.json", "fail", TRUE)
       ELSE IF content = <<"j">> THEN Result(".claude/settings.json", "warn", TRUE)
       ELSE Result(".claude/settings.json", "pass", FALSE)

\* validateGitHubStructure giving up on the pull-request template and
\* dependabot.yml when the issue templates are missing
validateGitHubStructure_StopsAtFirstWarn(st) ==
  IF ~dirExists(st, "github") THEN << Result(".github/", "fail", TRUE) >>
  ELSE IF ~dirExists(st, "issue")
          \/ {f \in readdir(st, "issue") : EndsWith(f, ".yml")} = {}
  THEN << Result(".github/ISSUE_TEMPLATE/", "warn", TRUE) >>
  ELSE LET pr == IF ~pathExists(st, PrPath)
                 THEN Result(".github/PULL_REQUEST_TEMPLATE.md", "warn", TRUE)
                 ELSE Result(".github/PULL_REQUEST_TEMPLATE.md", "pass", FALSE)
           dependabot == IF ~pathExists(st, DependabotPath)
                         THEN Result(".github/dependabot.yml", "warn", TRUE)
                         ELSE Result(".github/dependabot.yml", "pass", FALSE)
       IN << Result(".github/ISSUE_TEMPLATE/", "pass", FALSE), pr, dependabot >>

\* validateGitHubStructure reporting nothing when .github is missing
validateGitHubStructure_SilentWithoutGithub(st) ==
  IF ~dirExists(st, "github") THEN <<>>
  ELSE LET issue == IF ~dirExists(st, "issue")
                    THEN Result(".github/ISSUE_TEMPLATE/", "warn", TRUE)
                    ELSE IF {f \in readdir(st, "issue") : EndsWith(f, ".yml")} = {}
                    THEN Result(".github/ISSUE_TEMPLATE/", "warn", TRUE)
                    ELSE Result(".github/ISSUE_TEMPLATE/", "pass", FALSE)
           pr == IF ~pathExists(st, PrPath)
                 THEN Result(".github/PULL_REQUEST_TEMPLATE.md", "warn", TRUE)
                 ELSE Result(".github/PULL_REQUEST_TEMPLATE.md", "pass", FALSE)
           dependabot == IF ~pathExists(st, DependabotPath)
                         THEN Result(".github/dependabot.yml", "warn", TRUE)
                         ELSE Result(".github/dependabot.yml", "pass", FALSE)
       IN <<issue, pr, dependabot>>

validateGitHubStructure(st) ==
  IF ~dirExists(st, "github") THEN << Result(".github/", "fail", TRUE) >>
  ELSE LET issue == IF ~dirExists(st, "issue")
                    THEN Result(".github/ISSUE_TEMPLATE/", "warn", TRUE)
                    ELSE IF {f \in readdir(st, "issue") : EndsWith(f, ".yml")} = {}
                    THEN Result(".github/ISSUE_TEMPLATE/", "warn", TRUE)
                    ELSE Result(".github/ISSUE_TEMPLATE/", "pass", FALSE)
           pr == IF ~pathExists(st, PrPath)
                 THEN Result(".github/PULL_REQUEST_TEMPLATE.md", "warn", TRUE)
                 ELSE Result(".github/PULL_REQUEST_TEMPLATE.md", "pass", FALSE)
           dependabot == IF ~pathExists(st, DependabotPath)
                         THEN Result(".github/dependabot.yml", "warn", TRUE)
                         ELSE Result(".github/dependabot.yml", "pass", FALSE)
       IN <<issue, pr, dependabot>>

\* f.includes('ci') on a name kept as <<stem piece, ..., extension>>
nameIncludesCi(f) == \E i \in 1..Len(f) : f[i] = "ci"

\* validateWorkflows reporting nothing when .github/workflows is missing
validateWorkflows_SilentWithoutDir(st) ==
  IF ~dirExists(st, "workflows") THEN <<>>
  ELSE LET ymlWorkflows == {f \in readdir(st, "workflows") : EndsWith(f, ".yml")} IN
       IF ymlWorkflows = {} THEN << Result(".github/workflows/", "warn", TRUE) >>
       ELSE IF \E f \in ymlWorkflows : nameIncludesCi(f)
       THEN << Result("CI workflow", "pass", FALSE) >>
       ELSE << Result("CI workflow", "warn", TRUE) >>

validateWorkflows(st) ==
  IF ~dirExists(st, "workflows") THEN << Result(".github/workflows/", "fail", TRUE) >>
  ELSE LET ymlWorkflows == {f \in readdir(st, "workflows") : EndsWith(f, ".yml")} IN
       IF ymlWorkflows = {} THEN << Result(".github/workflows/", "warn", TRUE) >>
       ELSE IF \E f \in ymlWorkflows : nameIncludesCi(f)
       THEN << Result("CI workflow", "pass", FALSE) >>
       ELSE << Result("CI workflow", "warn", TRUE) >>

\* validateOrgSync comparing the remote text as fetched, blanks and all
validateOrgSync_Untrimmed(st, orgContent) ==
  IF orgContent = NULL THEN Result("org sync", "warn", FALSE)
  ELSE IF ~pathExists(st, ClaudeMdPath) THEN Result("org sync", "fail", TRUE)
  ELSE IF Includes(readFile(st, ClaudeMdPath), SliceTo(orgContent, OrgPrefixLength))
  THEN Result("org sync", "pass", FALSE)
  ELSE Result("org sync", "warn", TRUE)

\* validateOrgSync looking for the remote text at the start of the document only
validateOrgSync_ComparesFromStart(st, orgContent) ==
  IF orgContent = NULL THEN Result("org sync", "warn", FALSE)
  ELSE IF ~pathExists(st, ClaudeMdPath) THEN Result("org sync", "fail", TRUE)
  ELSE IF SliceTo(Trim(orgContent), OrgPrefixLength)
            = SliceTo(readFile(st, ClaudeMdPath),
                      Len(SliceTo(Trim(orgContent), OrgPrefixLength)))
  THEN Result("org sync", "pass", FALSE)
  ELSE Result("org sync", "warn", TRUE)

\* orgContent: stdout of the request for the organisation CLAUDE.md, NULL when
\* the request throws
validateOrgSync(st, orgContent) ==
  IF orgContent = NULL THEN Result("org sync", "warn", FALSE)
  ELSE IF ~pathExists(st, ClaudeMdPath) THEN Result("org sync", "fail", TRUE)
  ELSE IF Includes(readFile(st, ClaudeMdPath), SliceTo(Trim(orgContent), OrgPrefixLength))
  THEN Result("org sync", "pass", FALSE)
  ELSE Result("org sync", "warn", TRUE)

validateAll(st, orgContent) ==
  <<validateClaudeMd(st), validateClaudeSettings(st)>>
    \o validateGitHubStructure(st) \o validateWorkflows(st)
    \o <<validateOrgSync(st, orgContent)>>

countStatus(results, status) ==
  Cardinality({i \in 1..Len(results) : results[i].status = status})

\* the score cut off instead of rounded
scoreOf_Truncates(results) ==
  (100 * countStatus(results, "pass")) \div Len(results)

\* the score taking every result that is not a fail for a pass
scoreOf_CountsWarnAsPass(results) ==
  (200 * (Len(results) - countStatus(results, "fail")) + Len(results))
    \div (2 * Len(results))

\* Math.round((passCount / results.length) * 100)
scoreOf(results) ==
  (200 * countStatus(results, "pass") + Len(results)) \div (2 * Len(results))

\* needsFix looking at the fail results only
needsFix_OnlyOnFail(results, options) ==
  options.fix /\ countStatus(results, "fail") > 0

\* whether validateCommand goes on to call syncCommand
needsFix(results, options) ==
  options.fix /\ (countStatus(results, "fail") > 0 \/ countStatus(results, "warn") > 0)

(***************************************************************************)
(* The commands as steps.  last records the command that ran last: its     *)
(* options, the bundle it fetched and what it reported.                    *)
(***************************************************************************)
NoRun == [cmd |-> "none"]

\* the catch block of a command taking every error for none
handlerExit_AlwaysSwallows(cmd, caught) == 0

\* the exit code a top-level handler leaves: the catch blocks of sync, validate,
\* issue, v0 and claude call process.exit(1), the one of init does not
handlerExit(cmd, caught) == IF caught /\ cmd # "init" THEN 1 ELSE 0

\* prole sync; thrown: the first filesystem call of the try block throws
SyncCommand(remotes, downs, throws) ==
  \E remote \in remotes, down \in downs, dryRun \in BOOLEAN, force \in BOOLEAN,
     thrown \in throws :
    LET options   == [dryRun |-> dryRun, force |-> force]
        templates == fetchOrgTemplates(remote, down)
        r         == syncRun(fs, templates, options)
    IN IF thrown
       THEN /\ fs' = fs
            /\ last' = [cmd |-> "sync", options |-> options, templates |-> templates,
                        changes |-> <<>>, caught |-> TRUE,
                        exit |-> handlerExit("sync", TRUE)]
       ELSE /\ fs' = r.fs
            /\ last' = [cmd |-> "sync", options |-> options, templates |-> templates,
                        changes |-> r.changes, caught |-> FALSE,
                        exit |-> handlerExit("sync", FALSE)]

\* prole init
InitCommand(remotes, downs, optionSets, throws) ==
  \E remote \in remotes, down \in downs, options \in optionSets, thrownAt \in throws :
    LET templates == fetchOrgTemplates(remote, down)
    IN /\ fs' = initRun(fs, templates, options, thrownAt)
       /\ last' = [cmd |-> "init", options |-> options, templates |-> templates,
                   thrownAt |-> thrownAt, caught |-> thrownAt # "none",
                   exit |-> handlerExit("init", thrownAt # "none")]

\* prole validate: outside a git repository it exits with 1 before any check;
\* thrown: reading the rules document throws; with --fix and a warn or fail
\* result it ends by running sync
ValidateCommand(remotes, downs, throws) ==
  \E remote \in remotes, down \in downs, fix \in BOOLEAN, thrown \in throws :
    LET options   == [fix |-> fix]
        results   == validateAll(fs, fetchGitHubFile(remote.claudeMd, <<"CLAUDE.md">>, down))
        templates == fetchOrgTemplates(remote, down)
        r         == syncRun(fs, templates, [dryRun |-> FALSE, force |-> FALSE])
    IN IF ~dirExists(fs, "git")
       THEN /\ fs' = fs
            /\ last' = [cmd |-> "validate", options |-> options, results |-> <<>>,
                        fixed |-> FALSE, caught |-> FALSE, exit |-> 1]
       ELSE IF thrown
       THEN /\ fs' = fs
            /\ last' = [cmd |-> "validate", options |-> options, results |-> <<>>,
                        fixed |-> FALSE, caught |-> TRUE,
                        exit |-> handlerExit("validate", TRUE)]
       ELSE IF needsFix(results, options)
       THEN /\ fs' = r.fs
            /\ last' = [cmd |-> "validate", options |-> options, results |-> results,
                        score |-> scoreOf(results), fixed |-> TRUE,
                        templates |-> templates, changes |-> r.changes,
                        caught |-> FALSE, exit |-> handlerExit("validate", FALSE)]
       ELSE /\ fs' = fs
            /\ last' = [cmd |-> "validate", options |-> options, results |-> results,
                        score |-> scoreOf(results), fixed |-> FALSE,
                        caught |-> FALSE, exit |-> handlerExit("validate", FALSE)]

\* prole issue: listReadyIssues, createIssue and viewIssue catch every failure
\* of gh themselves, nothing reaches the handler
IssueCommand ==
  \E mode \in {"list", "create", "view", "default"}, ghFails \in BOOLEAN :
    /\ fs' = fs
    /\ last' = [cmd |-> "issue", mode |-> mode, ghFails |-> ghFails,
                caught |-> FALSE, exit |-> handlerExit("issue", FALSE)]

\* prole v0: without prompt it prints the help, without V0_API_KEY it exits
\* with 1, and an error of the API call reaches the handler
V0Command ==
  \E prompt \in BOOLEAN, apiKey \in BOOLEAN, apiFails \in BOOLEAN :
    LET caught == prompt /\ apiKey /\ apiFails
    IN /\ fs' = fs
       /\ last' = [cmd |-> "v0", prompt |-> prompt, apiKey |-> apiKey,
                   apiFails |-> apiFails, caught |-> caught,
                   exit |-> IF ~prompt THEN 0
                            ELSE IF ~apiKey THEN 1
                            ELSE handlerExit("v0", caught)]

\* the settings.json ("K") and hooks.json ("h") claude --setup writes
SetupSettingsJson == <<"K">>
HooksJson         == <<"h">>

setupClaude(st) ==
  writeFile(writeFile(ensureDir(st, "claude"), SettingsPath, SetupSettingsJson),
            HooksPath, HooksJson)

\* prole claude: --setup rethrows a filesystem error to the handler (fails: the
\* first filesystem call throws), --mcp catches the failure of its command
ClaudeCommand ==
  \E mode \in {"setup", "mcp", "status"}, fails \in BOOLEAN :
    LET caught == mode = "setup" /\ fails
    IN /\ fs' = IF mode = "setup" /\ ~fails THEN setupClaude(fs) ELSE fs
       /\ last' = [cmd |-> "claude", mode |-> mode, fails |-> fails,
                   caught |-> caught, exit |-> handlerExit("claude", caught)]

(***************************************************************************)
(* Texts, names and remote snapshots the checks run over                   *)
(***************************************************************************)
\* the longest run of newlines put around a text
MaxPad == 1

Pad(k) == [i \in 1..k |-> "n"]

IssueNames    == { <<"bug", ".yml">>, <<"feat", ".yaml">> }
WorkflowNames == { <<"ci", ".yml">>, <<"pr-check", ".yml">>, <<"v0-generate", ".yml">> }

AllPaths ==
  {ClaudeMdPath, PrPath, DependabotPath, SettingsPath, HooksPath}
    \cup {IssuePath(n) : n \in IssueNames} \cup {WorkflowPath(n) : n \in WorkflowNames}

AllDirs == {"git", "github", "issue", "workflows", "claude"}

\* organisation repository, two revisions
RemoteA ==
  [claudeMd       |-> <<"a">>,
   issueTemplates |-> << [name |-> <<"bug", ".yml">>,   content |-> <<"a">>],
                         [name |-> <<"feat", ".yaml">>, content |-> <<"a">>],
                         [name |-> <<"config", ".md">>, content |-> <<"a">>] >>,
   prTemplate     |-> <<"a">>,
   workflows      |-> << [name |-> <<"ci", ".yml">>,     content |-> <<"a">>],
                         [name |-> <<"notes", ".yaml">>, content |-> <<"a">>] >>]

RemoteB ==
  [claudeMd       |-> <<"b", "n">>,
   issueTemplates |-> << [name |-> <<"bug", ".yml">>,   content |-> <<"b">>],
                         [name |-> <<"feat", ".yaml">>, content |-> <<"a">>] >>,
   prTemplate     |-> <<"b", "n">>,
   workflows      |-> << [name |-> <<"ci", ".yml">>,       content |-> <<"a">>],
                         [name |-> <<"pr-check", ".yml">>, content |-> <<>>] >>]

AllRequests ==
  { <<"CLAUDE.md">>, <<"ISSUE_TEMPLATE">>, <<"PULL_REQUEST_TEMPLATE.md">>,
    <<"workflow-templates">> }
    \cup {<<"ISSUE_TEMPLATE">> \o n : n \in IssueNames}
    \cup {<<"workflow-templates">> \o n : n \in WorkflowNames}

\* a working directory: the directories that exist and the content of some
\* files; a file outside an existing directory is absent
Directory(dirs, contents) ==
  [dirs  |-> dirs,
   files |-> [p \in AllPaths |->
                IF p \in DOMAIN contents /\ (p.dir = "root" \/ p.dir \in dirs)
                THEN contents[p] ELSE NULL]]

\* the text before the first marker of the rules document
Prefix(st) == SplitHead(readFile(st, ClaudeMdPath), orgSectionMarker)

HasMarker(st) ==
  pathExists(st, ClaudeMdPath) /\ Includes(readFile(st, ClaudeMdPath), orgSectionMarker)

(***************************************************************************)
(* SpecFiles: sync over working directories that differ in their           *)
(* directories and in the templates, pull-request template and workflows   *)
(***************************************************************************)
FilesDirs ==
  { {}, {"git", "github"}, {"git", "github", "issue"},
    {"git", "github", "issue", "workflows"} }

FilesTexts ==
  { NULL, <<"a">>, <<"a", "n", "b">> } \cup {Pad(k) \o <<"a">> \o Pad(k) : k \in 1..MaxPad}

FilesDowns ==
  { {}, AllRequests, {<<"CLAUDE.md">>, <<"PULL_REQUEST_TEMPLATE.md">>},
    {<<"ISSUE_TEMPLATE", "bug", ".yml">>, <<"workflow-templates">>} }

InitFiles ==
  /\ \E dirs \in FilesDirs, bug \in FilesTexts, pr \in FilesTexts,
        ci \in {NULL, <<"c">>},
        rules \in {NULL, <<"p", "n">> \o orgSectionMarker \o <<"n", "n", "a">>} :
       fs = Directory(dirs, (IssuePath(<<"bug", ".yml">>) :> bug) @@ (PrPath :> pr)
                              @@ (WorkflowPath(<<"ci", ".yml">>) :> ci)
                              @@ (ClaudeMdPath :> rules))
  /\ last = NoRun

SyncFiles == SyncCommand({RemoteA, RemoteB}, FilesDowns, {FALSE})

NextFiles == SyncFiles

SpecFiles == InitFiles /\ [][NextFiles]_vars

(***************************************************************************)
(* Reading a report                                                        *)
(***************************************************************************)
\* the targets other than the rules document
TemplatePaths == AllPaths \ {ClaudeMdPath, DependabotPath, SettingsPath, HooksPath}

\* what a bundle holds for a target, NULL when it holds nothing for it
BundleContent(templates, p) ==
  CASE p = ClaudeMdPath    -> IF Truthy(templates.claudeMd) THEN templates.claudeMd ELSE NULL
    [] p = PrPath          -> IF Truthy(templates.prTemplate) THEN templates.prTemplate ELSE NULL
    [] p.dir = "issue"     -> lookup(templates.issueTemplates, p.name)
    [] p.dir = "workflows" -> lookup(templates.workflows, p.name)
    [] OTHER               -> NULL

Reported(changes, p) == \E i \in 1..Len(changes) : changes[i].file = p

ActionFor(changes, p) ==
  changes[CHOOSE i \in 1..Len(changes) : changes[i].file = p].action

Actions(changes) == {changes[i].action : i \in 1..Len(changes)}

\* the last command was a sync (dry or not as given)
Synced(run, dryRun) == run.cmd = "sync" /\ run.options.dryRun = dryRun

(***************************************************************************)
(* C1: a sync run with dry_run = true performs no filesystem mutation: no  *)
(* file is created or overwritten and no directory is created.             *)
(* Stated as the original claim; syncCommand calls fs.ensureDir on         *)
(* .github/ISSUE_TEMPLATE and .github/workflows before looking at dryRun.  *)
(***************************************************************************)
C1_DryRunMutatesNothing ==
  [][Synced(last', TRUE) => fs' = fs]_vars

(***************************************************************************)
(* C2: the sequence of (file, decision) pairs a dry-run sync reported is   *)
(* the sequence a non-dry-run sync, run next on the same bundle with       *)
(* either force value, reports.                                            *)
(***************************************************************************)
C2_DryRunReportsWhatSyncDoes ==
  Synced(last, TRUE) =>
    \A force \in BOOLEAN :
      syncRun(fs, last.templates, [dryRun |-> FALSE, force |-> force]).changes
        = last.changes

\* a dry run that reported a create, an update and a skip, the rules document
\* among the files
C2_Witness ==
  /\ Synced(last, TRUE)
  /\ Actions(last.changes) = {"create", "update", "skip"}
  /\ Reported(last.changes, ClaudeMdPath)
  /\ syncRun(fs, last.templates, [dryRun |-> FALSE, force |-> FALSE]).fs # fs

(***************************************************************************)
(* C6: after a non-dry-run sync, a second sync on the same bundle (any     *)
(* flags) reports skip for every file and writes nothing.                  *)
(***************************************************************************)
C6_SecondSyncSkipsAll ==
  Synced(last, FALSE) =>
    \A dryRun \in BOOLEAN, force \in BOOLEAN :
      LET r == syncRun(fs, last.templates, [dryRun |-> dryRun, force |-> force])
      IN /\ r.fs = fs
         /\ Len(r.changes) = Len(last.changes)
         /\ \A i \in 1..Len(r.changes) :
              r.changes[i].action = "skip" /\ r.changes[i].file = last.changes[i].file

\* a non-dry-run sync that created and updated files, the rules document and a
\* template among those updated
C6_Witness ==
  /\ Synced(last, FALSE)
  /\ {"create", "update"} \subseteq Actions(last.changes)
  /\ Reported(last.changes, ClaudeMdPath)
  /\ ActionFor(last.changes, ClaudeMdPath) = "update"
  /\ \E p \in TemplatePaths :
       Reported(last.changes, p) /\ ActionFor(last.changes, p) = "update"

C8_TrimEqualIsLeftAlone ==
  [][last'.cmd = "sync" =>
       \A p \in TemplatePaths :
         (/\ Reported(last'.changes, p)
          /\ fs.files[p] # NULL
          /\ Trim(fs.files[p]) = Trim(BundleContent(last'.templates, p)))
           => /\ ActionFor(last'.changes, p) = "skip"
              /\ fs'.files[p] = fs.files[p]]_vars

\* a forced, non-dry-run sync after which a target still differs from the
\* bundle content in its surrounding whitespace only
C8_Witness ==
  /\ Synced(last, FALSE) /\ last.options.force
  /\ \E p \in TemplatePaths :
       /\ Reported(last.changes, p) /\ ActionFor(last.changes, p) = "skip"
       /\ fs.files[p] # BundleContent(last.templates, p)
       /\ Trim(fs.files[p]) = Trim(BundleContent(last.templates, p))

(***************************************************************************)
(* SpecRules: init, sync, validate and the user's edits of the project     *)
(* part, over rules documents with and without the marker                  *)
(***************************************************************************)
\* the user rewrites the text before the marker and leaves the rest
UserPrefixes == { <<>>, <<"q", "n">> }

UserEditPrefix ==
  /\ HasMarker(fs)
  /\ \E q \in UserPrefixes :
       fs' = writeFile(fs, ClaudeMdPath,
                       q \o orgSectionMarker
                         \o AfterFirst(readFile(fs, ClaudeMdPath), orgSectionMarker))
  /\ last' = [cmd |-> "edit"]

RulesRemote(text) ==
  [claudeMd       |-> text,
   issueTemplates |-> << [name |-> <<"bug", ".yml">>, content |-> <<"a">>] >>,
   prTemplate     |-> <<>>,
   workflows      |-> << [name |-> <<"ci", ".yml">>, content |-> <<"a">>] >>]

\* organisation rules: two revisions, and one that quotes the marker itself
OrgTexts == { <<"a">>, <<"#", "M", "b">> } \cup {<<"b">> \o Pad(k) : k \in 1..MaxPad}

RulesRemotes == {RulesRemote(t) : t \in OrgTexts}

RulesDowns == { {}, {<<"CLAUDE.md">>} }

RulesDocs ==
  { NULL,
    <<"p">>,
    <<"p", "n">> \o orgSectionMarker \o <<"n", "n", "a", "n">>,
    <<"p">> \o orgSectionMarker \o <<"a">> \o orgSectionMarker \o <<"b">> }

RulesInitOptions ==
  [template : {"nextjs", "library"}, force : BOOLEAN,
   workflows : {NULL}, allWorkflows : {FALSE}]

InitRules ==
  /\ \E dirs \in { {}, {"git"} }, rules \in RulesDocs :
       fs = Directory(dirs, (ClaudeMdPath :> rules))
  /\ last = NoRun

SyncRules     == SyncCommand(RulesRemotes, RulesDowns, {FALSE})
InitRulesRepo == InitCommand(RulesRemotes, RulesDowns, RulesInitOptions, {"none"})
ValidateRules == ValidateCommand(RulesRemotes, RulesDowns, {FALSE})

NextRules == SyncRules \/ InitRulesRepo \/ ValidateRules \/ UserEditPrefix

SpecRules == InitRules /\ [][NextRules]_vars

(***************************************************************************)
(* C3: a rules document that exists and does not contain the marker gets   *)
(* the decision skip from sync and keeps its content, for every bundle     *)
(* rules text, with or without --force and --dry-run.                      *)
(***************************************************************************)
C3_NoMarkerIsSkipped ==
  [][(/\ last'.cmd = "sync"
      /\ pathExists(fs, ClaudeMdPath) /\ ~HasMarker(fs))
       => /\ fs'.files[ClaudeMdPath] = fs.files[ClaudeMdPath]
          /\ Truthy(last'.templates.claudeMd)
               => /\ Reported(last'.changes, ClaudeMdPath)
                  /\ ActionFor(last'.changes, ClaudeMdPath) = "skip"]_vars

\* a forced, non-dry-run sync that skipped a rules document without marker
\* which holds nothing of the bundle's rules text
C3_Witness ==
  /\ Synced(last, FALSE) /\ last.options.force
  /\ pathExists(fs, ClaudeMdPath) /\ ~HasMarker(fs)
  /\ Reported(last.changes, ClaudeMdPath)
  /\ ActionFor(last.changes, ClaudeMdPath) = "skip"
  /\ ~Includes(readFile(fs, ClaudeMdPath), Trim(last.templates.claudeMd))

(***************************************************************************)
(* C4: when sync updates a rules document that contains the marker, the    *)
(* text before the first marker of the written file is the text before the *)
(* first marker beforehand, and what follows the marker is the blank line  *)
(* and the bundle's rules text, nothing of the old text after the marker.  *)
(***************************************************************************)
C4_UpdateKeepsPrefixReplacesRest ==
  [][(/\ Synced(last', FALSE)
      /\ HasMarker(fs)
      /\ Reported(last'.changes, ClaudeMdPath)
      /\ ActionFor(last'.changes, ClaudeMdPath) = "update")
       => /\ HasMarker(fs')
          /\ Prefix(fs') = Prefix(fs)
          /\ AfterFirst(readFile(fs', ClaudeMdPath), orgSectionMarker)
               = BlankLine \o last'.templates.claudeMd]_vars

\* an update of a rules document whose project part is the user's own
C4_Witness ==
  /\ Synced(last, FALSE)
  /\ Reported(last.changes, ClaudeMdPath)
  /\ ActionFor(last.changes, ClaudeMdPath) = "update"
  /\ HasMarker(fs)
  /\ Prefix(fs) \in {<<"p">>, <<"p", "n">>, <<"q", "n">>}

(***************************************************************************)
(* C5, as claimed: across init, sync and validate --fix with any flags,    *)
(* init --force included, the text before the marker of a rules document   *)
(* that contains the marker is never modified by the tool.                 *)
(***************************************************************************)
ToolRan(run) == run.cmd \in {"init", "sync", "validate"}

C5_ToolNeverTouchesPrefix ==
  [][(HasMarker(fs) /\ ToolRan(last'))
       => (HasMarker(fs') /\ Prefix(fs') = Prefix(fs))]_vars

(***************************************************************************)
(* C5, amended: across sync, validate --fix and init without --force, the  *)
(* text before the first marker of a rules document that contains the      *)
(* marker is never modified by the tool.                                   *)
(***************************************************************************)
C5_PrefixKeptUnlessInitForce ==
  [][(/\ HasMarker(fs)
      /\ ToolRan(last')
      /\ ~(last'.cmd = "init" /\ last'.options.force))
       => (HasMarker(fs') /\ Prefix(fs') = Prefix(fs))]_vars

\* init without --force, with the organisation rules fetched, ran over a
\* rules document whose project part is the user's own
C5_Witness ==
  /\ last.cmd = "init" /\ ~last.options.force
  /\ Truthy(last.templates.claudeMd)
  /\ HasMarker(fs)
  /\ Prefix(fs) = <<"q", "n">>

(***************************************************************************)
(* C9: for a rules document that contains the marker the decision is skip  *)
(* exactly when the current prefix, the marker, the blank line and the     *)
(* bundle's rules text together equal the current content after trimming,  *)
(* update otherwise, and skip writes nothing; in particular, when the      *)
(* organisation text is the one the last sync left after the marker, sync  *)
(* decides skip whatever the project part has been edited to since.        *)
(***************************************************************************)
C9_SkipIffRebuiltEqual ==
  /\ [][(/\ last'.cmd = "sync"
         /\ HasMarker(fs)
         /\ Reported(last'.changes, ClaudeMdPath))
          => LET current == readFile(fs, ClaudeMdPath)
                 rebuilt == Prefix(fs) \o orgSectionMarker \o BlankLine
                              \o last'.templates.claudeMd
                 decision == ActionFor(last'.changes, ClaudeMdPath)
             IN /\ decision = "skip" <=> Trim(rebuilt) = Trim(current)
                /\ decision = "update" <=> Trim(rebuilt) # Trim(current)
                /\ decision = "skip" => fs'.files[ClaudeMdPath] = current]_vars
  /\ [](( /\ Synced(last, FALSE)
          /\ Reported(last.changes, ClaudeMdPath)
          /\ HasMarker(fs))
         => \A q \in UserPrefixes \cup {<<"n", "r">>},
               dryRun \in BOOLEAN, force \in BOOLEAN :
              LET edited == writeFile(fs, ClaudeMdPath,
                              q \o orgSectionMarker
                                \o AfterFirst(readFile(fs, ClaudeMdPath), orgSectionMarker))
                  r == updateClaudeMdOrgSection(edited, ClaudeMdPath,
                         last.templates.claudeMd, [dryRun |-> dryRun, force |-> force])
              IN r.action = "skip" /\ r.fs = edited)

\* a sync that skipped a rules document whose project part the user had
\* rewritten and whose organisation part is the one sync writes for the bundle
C9_Witness ==
  /\ last.cmd = "sync"
  /\ Reported(last.changes, ClaudeMdPath)
  /\ ActionFor(last.changes, ClaudeMdPath) = "skip"
  /\ HasMarker(fs)
  /\ Prefix(fs) = <<"q", "n">>
  /\ AfterFirst(readFile(fs, ClaudeMdPath), orgSectionMarker)
       \in {BlankLine \o last.templates.claudeMd,
            BlankLine \o last.templates.claudeMd \o <<"n">>}

(***************************************************************************)
(* C10: init in a working directory without rules document creates a rules *)
(* document made of the built-in project header and the marker followed by *)
(* organisation text, whether or not the remote rules were fetched.        *)
(* Stated as the original claim; without the remote rules init writes      *)
(* createLocalClaudeMd's document, which has neither header nor marker.    *)
(***************************************************************************)
C10_InitWritesHeaderAndMarker ==
  [][(last'.cmd = "init" /\ ~pathExists(fs, ClaudeMdPath))
       => /\ HasMarker(fs')
          /\ Prefix(fs') = ProjectHeader(getTechStackForTemplate(last'.options.template))
          /\ AfterFirst(readFile(fs', ClaudeMdPath), orgSectionMarker) # <<>>]_vars

(***************************************************************************)
(* SpecRepo: init, sync and validate over whole working directories, with  *)
(* the remote reachable, partly reachable or unreachable                   *)
(***************************************************************************)
\* the bundle fetchOrgTemplates starts from and returns when nothing is fetched
AbsentBundle ==
  [claudeMd |-> NULL, issueTemplates |-> <<>>, prTemplate |-> NULL, workflows |-> <<>>]

EmptyDirectory == Directory({}, <<>>)

\* a repository its owner set up by hand: own rules document without marker,
\* a settings file without permissions.allow, own dependabot.yml and ci.yml
OwnDirectory ==
  Directory({"git", "github", "workflows", "claude"},
            (ClaudeMdPath :> <<"p">>) @@ (SettingsPath :> <<"j">>)
              @@ (DependabotPath :> <<"u">>)
              @@ (WorkflowPath(<<"ci", ".yml">>) :> <<"u">>))

\* a git repository that has the rules document and the settings file init
\* writes and no .github directory
RulesOnlyDirectory ==
  Directory({"git", "claude"},
            (ClaudeMdPath :> SyncHeader \o orgSectionMarker \o BlankLine \o <<"a", "n">>)
              @@ (SettingsPath :> SettingsJson))

RepoRemotes == {RemoteA, RemoteB}

RepoDowns == { {}, AllRequests, {<<"CLAUDE.md">>, <<"workflow-templates">>} }

RepoInitOptions ==
  [template : {"nextjs"}, force : BOOLEAN, workflows : {NULL}, allWorkflows : BOOLEAN]

InitRepoState ==
  /\ fs \in {EmptyDirectory, Directory({"git"}, <<>>), OwnDirectory, RulesOnlyDirectory}
  /\ last = NoRun

SyncRepo     == SyncCommand(RepoRemotes, RepoDowns, {FALSE})
InitRepo     == InitCommand(RepoRemotes, RepoDowns, RepoInitOptions, {"none"})
ValidateRepo == ValidateCommand(RepoRemotes, RepoDowns, {FALSE})

NextRepo == SyncRepo \/ InitRepo \/ ValidateRepo

SpecRepo == InitRepoState /\ [][NextRepo]_vars

(***************************************************************************)
(* C11: when every fetch fails, so that the bundle is all-absent, init in  *)
(* an empty working directory leaves the files createLocalTemplates writes *)
(* (built-in ci.yml, local rules document, settings file) and ends without *)
(* error.                                                                  *)
(* Stated as the original claim; each fetch fails soft, nothing is thrown, *)
(* and init goes down its main path with the empty bundle.                 *)
(***************************************************************************)
C11_UnreachableRemoteFallsBack ==
  [][(/\ last'.cmd = "init"
      /\ last'.templates = AbsentBundle
      /\ fs = EmptyDirectory)
       => /\ fs' = createLocalTemplates(fs, last'.options)
          /\ last'.exit = 0]_vars

(***************************************************************************)
(* SpecFetch: fetchOrgTemplates under every combination of failing         *)
(* requests                                                                *)
(***************************************************************************)
FetchRemotes == {RemoteA, RemoteB}

FetchDowns == SUBSET AllRequests

InitFetch ==
  /\ fs = EmptyDirectory
  /\ last = NoRun

\* one call of fetchOrgTemplates; last keeps what the remote held, the requests
\* that failed and the bundle returned
FetchStep ==
  \E remote \in FetchRemotes, down \in FetchDowns :
    /\ last' = [cmd |-> "fetch", remote |-> remote, down |-> down,
                templates |-> fetchOrgTemplates(remote, down)]
    /\ fs' = fs

NextFetch == FetchStep

SpecFetch == InitFetch /\ [][NextFetch]_vars

\* the keys of a bundle map are names the listing holds, each once
KeysFrom(map, listing) ==
  /\ \A j \in 1..Len(map) : \E i \in 1..Len(listing) : listing[i].name = map[j].name
  /\ \A j, k \in 1..Len(map) : map[j].name = map[k].name => j = k

\* a listed file is failed when its listing or its own request fails
FileFailed(key, name, down) == key \in down \/ (key \o name) \in down

\* the bundle map holds exactly the asked-for files that did not fail, or, with
\* dropEmpty, those of them whose content is not empty
ListedAs(map, listing, key, exts, down, dropEmpty) ==
  /\ KeysFrom(map, listing)
  /\ \A i \in 1..Len(listing) :
       LET e == listing[i] IN
       IF /\ \E x \in exts : EndsWith(e.name, x)
          /\ ~FileFailed(key, e.name, down)
          /\ ~(dropEmpty /\ e.content = <<>>)
       THEN \E j \in 1..Len(map) : map[j] = e
       ELSE ~\E j \in 1..Len(map) : map[j].name = e.name

BundleAs(run, dropEmpty) ==
  /\ run.templates.claudeMd
       = IF <<"CLAUDE.md">> \in run.down THEN NULL ELSE run.remote.claudeMd
  /\ run.templates.prTemplate
       = IF <<"PULL_REQUEST_TEMPLATE.md">> \in run.down THEN NULL ELSE run.remote.prTemplate
  /\ ListedAs(run.templates.issueTemplates, run.remote.issueTemplates,
              <<"ISSUE_TEMPLATE">>, {".yml", ".yaml"}, run.down, dropEmpty)
  /\ ListedAs(run.templates.workflows, run.remote.workflows,
              <<"workflow-templates">>, {".yml"}, run.down, dropEmpty)
  /\ run.down = AllRequests => run.templates = AbsentBundle

(***************************************************************************)
(* C12, as claimed: for every combination of failing requests the bundle   *)
(* fetchOrgTemplates returns lacks exactly the failed artifacts and holds  *)
(* every successfully fetched one with its content; with every request     *)
(* failing it is the all-absent bundle.                                    *)
(***************************************************************************)
C12_ExactlyFailedAbsent ==
  last.cmd = "fetch" => BundleAs(last, FALSE)

(***************************************************************************)
(* C12, amended: the bundle lacks exactly the failed artifacts and the     *)
(* listed files whose fetched content is empty, and holds every other      *)
(* fetched artifact with its content; with every request failing it is the *)
(* all-absent bundle.                                                      *)
(***************************************************************************)
C12_FailedOrEmptyAbsent ==
  last.cmd = "fetch" => BundleAs(last, TRUE)

\* a fetch in which the rules document and one listed file failed while the
\* pull-request template and a later file of the same listing were fetched
C12_Witness ==
  /\ last.cmd = "fetch"
  /\ last.down = {<<"CLAUDE.md">>, <<"ISSUE_TEMPLATE", "bug", ".yml">>}
  /\ last.templates.claudeMd = NULL
  /\ Truthy(last.templates.prTemplate)
  /\ lookup(last.templates.issueTemplates, <<"bug", ".yml">>) = NULL
  /\ Truthy(lookup(last.templates.issueTemplates, <<"feat", ".yaml">>))
  /\ Truthy(lookup(last.templates.workflows, <<"ci", ".yml">>))

(***************************************************************************)
(* SpecScore: the summary validateCommand prints for a list of results     *)
(***************************************************************************)
\* the most results one list holds (validate reports five or seven)
MaxResults == 7

Statuses == {"pass", "warn", "fail"}

ResultLists ==
  UNION { {[i \in 1..n |-> Result("check", f[i], f[i] # "pass")] : f \in [1..n -> Statuses]}
          : n \in 1..MaxResults }

\* the counting loop and the score of validateCommand
Summary(results) ==
  [cmd |-> "summary", results |-> results,
   passCount |-> countStatus(results, "pass"),
   warnCount |-> countStatus(results, "warn"),
   failCount |-> Len(results) - countStatus(results, "pass") - countStatus(results, "warn"),
   score |-> scoreOf(results)]

InitScore ==
  /\ fs = EmptyDirectory
  /\ \E results \in ResultLists : last = [cmd |-> "results", results |-> results]

\* validate summarises the results it collected
Summarise ==
  /\ last.cmd = "results"
  /\ last' = Summary(last.results) @@ [appended |-> FALSE, before |-> scoreOf(last.results)]
  /\ fs' = fs

\* the same run with one more result at the end of the list
SummariseOneMore ==
  /\ last.cmd = "summary"
  /\ Len(last.results) < MaxResults
  /\ \E status \in Statuses :
       last' = Summary(Append(last.results, Result("check", status, status # "pass")))
                 @@ [appended |-> TRUE, before |-> last.score]
  /\ fs' = fs

NextScore == Summarise \/ SummariseOneMore

SpecScore == InitScore /\ [][NextScore]_vars

\* the results of a list that passed
Passes(results) == {i \in 1..Len(results) : results[i].status = "pass"}

(***************************************************************************)
(* C13: the score validate reports is 100 x passes / results rounded to    *)
(* the nearest integer (halves upwards), the results counted being all of  *)
(* them, pass, warn and fail; it is 100 exactly when every result is pass. *)
(***************************************************************************)
C13_ScoreIsRoundedPassShare ==
  last.cmd = "summary" =>
    LET n == Len(last.results)
        p == Cardinality(Passes(last.results))
    IN /\ last.passCount + last.warnCount + last.failCount = n
       /\ last.passCount = p
       /\ (2 * last.score - 1) * n <= 200 * p
       /\ 200 * p < (2 * last.score + 1) * n
       /\ last.score = 100 <=> p = n

\* a summary of seven results, one of them a warn: 85.7 is reported as 86
C13_Witness ==
  /\ last.cmd = "summary"
  /\ Len(last.results) = 7
  /\ last.passCount = 6 /\ last.warnCount = 1
  /\ last.score = 86

(***************************************************************************)
(* C14: a list of results with one more warn or fail result at its end     *)
(* never has a higher score than the list without it.                      *)
(***************************************************************************)
C14_OneMoreWarnOrFailNeverRaises ==
  (/\ last.cmd = "summary"
   /\ last.appended
   /\ last.results[Len(last.results)].status \in {"warn", "fail"})
    => last.score <= last.before

\* one warn at the end of results that all passed brought the score below 100
C14_Witness ==
  /\ last.cmd = "summary"
  /\ last.appended
  /\ last.results[Len(last.results)].status = "warn"
  /\ last.before = 100
  /\ last.score < 100

(***************************************************************************)
(* C15: validate runs sync, once, with dryRun = false and force = false,   *)
(* exactly when --fix is set and some result is warn or fail; the results  *)
(* and the score it reported are those of the working directory as it was  *)
(* before that sync, and nothing is checked again afterwards; without the  *)
(* sync validate writes nothing.                                           *)
(***************************************************************************)
C15_FixRunsSyncAfterReport ==
  [][last'.cmd = "validate" =>
       LET results == last'.results
           wanted  == /\ last'.options.fix
                      /\ \E i \in 1..Len(results) : results[i].status \in {"warn", "fail"}
       IN /\ last'.fixed <=> wanted
          /\ last'.exit = 0 =>
               /\ \E remote \in RepoRemotes, down \in RepoDowns :
                    results = validateAll(fs, fetchGitHubFile(remote.claudeMd,
                                                              <<"CLAUDE.md">>, down))
               /\ last'.score = scoreOf(results)
          /\ last'.fixed =>
               LET r == syncRun(fs, last'.templates, [dryRun |-> FALSE, force |-> FALSE])
               IN fs' = r.fs /\ last'.changes = r.changes
          /\ ~last'.fixed => fs' = fs]_vars

\* validate --fix reported a missing rules document as fail and then ran the
\* sync that created it; the report still says fail
C15_Witness ==
  /\ last.cmd = "validate" /\ last.options.fix /\ last.fixed
  /\ last.results[1] = Result("CLAUDE.md", "fail", TRUE)
  /\ validateClaudeMd(fs) = Result("CLAUDE.md", "pass", FALSE)
  /\ Reported(last.changes, ClaudeMdPath)
  /\ ActionFor(last.changes, ClaudeMdPath) = "create"

\* the results of a list that carry the fixable flag
Fixable(results) == {i \in 1..Len(results) : results[i].fixable}

AllPass(results) == \A i \in 1..Len(results) : results[i].status = "pass"

\* the five checks of validateCommand, each as the list of its results
Checks(st, orgContent) ==
  << <<validateClaudeMd(st)>>, <<validateClaudeSettings(st)>>,
     validateGitHubStructure(st), validateWorkflows(st),
     <<validateOrgSync(st, orgContent)>> >>

(***************************************************************************)
(* C16: whenever a check of validate gives a result with the fixable flag, *)
(* the same check gives pass after a non-dry-run sync whose bundle was     *)
(* fetched in full (settings file, dependabot.yml, pull-request template,  *)
(* issue templates, workflows, rules document).                            *)
(* Stated as the original claim; sync writes neither settings.json nor     *)
(* dependabot.yml and leaves a rules document without marker alone.        *)
(***************************************************************************)
C16_FixableIsFixedBySync ==
  [][Synced(last', FALSE) =>
       \A remote \in RepoRemotes :
         last'.templates = fetchOrgTemplates(remote, {}) =>
           \A k \in 1..5 :
             Fixable(Checks(fs, remote.claudeMd)[k]) # {}
               => AllPass(Checks(fs', remote.claudeMd)[k])]_vars

(***************************************************************************)
(* SpecCommands: the six commands of the CLI, each with the failures its   *)
(* top-level handler can meet                                              *)
(***************************************************************************)
CommandRemotes == {RemoteA}

CommandDowns == { {}, AllRequests }

CommandInitOptions ==
  [template : {"nextjs"}, force : BOOLEAN, workflows : {NULL}, allWorkflows : {FALSE}]

\* the steps of init's try block at which a filesystem call may throw
InitThrows == {"none", "github", "claudeMd", "config"}

InitCommands ==
  /\ fs \in {EmptyDirectory, Directory({"git"}, <<>>)}
  /\ last = NoRun

SyncAny     == SyncCommand(CommandRemotes, CommandDowns, BOOLEAN)
InitAny     == InitCommand(CommandRemotes, CommandDowns, CommandInitOptions, InitThrows)
ValidateAny == ValidateCommand(CommandRemotes, CommandDowns, BOOLEAN)

NextCommands ==
  SyncAny \/ InitAny \/ ValidateAny \/ IssueCommand \/ V0Command \/ ClaudeCommand

SpecCommands == InitCommands /\ [][NextCommands]_vars

CommandNames == {"init", "sync", "validate", "issue", "v0", "claude"}

\* the runs that end in process.exit(1) outside a catch block: validate outside
\* a git repository, v0 with a prompt and without V0_API_KEY
ExitsDirectly(run, st) ==
  \/ run.cmd = "validate" /\ ~dirExists(st, "git")
  \/ run.cmd = "v0" /\ run.prompt /\ ~run.apiKey

WroteRules(run, before) ==
  \/ /\ run.cmd = "init" /\ ~run.caught
     /\ Truthy(run.templates.claudeMd)
     /\ run.options.force \/ ~pathExists(before, ClaudeMdPath)
  \/ /\ \/ run.cmd = "sync" /\ ~run.options.dryRun
        \/ run.cmd = "validate" /\ run.fixed
     /\ Reported(run.changes, ClaudeMdPath)
     /\ ActionFor(run.changes, ClaudeMdPath) \in {"create", "update"}

(***************************************************************************)
(* C18: a rules document written by init's fetched-template path or by a   *)
(* create or update of sync contains the marker validate and sync look     *)
(* for: right afterwards validate's rules-document check is pass, and a    *)
(* sync decides by comparison, skip for the same organisation text and     *)
(* update for another one, instead of the skip of a document without       *)
(* marker.                                                                 *)
(***************************************************************************)
C18_WrittenRulesCarryTheMarker ==
  [][WroteRules(last', fs) =>
       /\ Includes(readFile(fs', ClaudeMdPath), orgSectionMarker)
       /\ validateClaudeMd(fs') = Result("CLAUDE.md", "pass", FALSE)
       /\ \A dryRun \in BOOLEAN, force \in BOOLEAN :
            LET options == [dryRun |-> dryRun, force |-> force] IN
            /\ updateClaudeMdOrgSection(fs', ClaudeMdPath, last'.templates.claudeMd,
                                        options).action = "skip"
            /\ updateClaudeMdOrgSection(fs', ClaudeMdPath, <<"z">>,
                                        options).action = "update"]_vars

\* sync updated, to another revision of the organisation text, a rules
\* document that begins with the built-in header init and sync write
C18_Witness ==
  /\ Synced(last, FALSE)
  /\ Reported(last.changes, ClaudeMdPath)
  /\ ActionFor(last.changes, ClaudeMdPath) = "update"
  /\ readFile(fs, ClaudeMdPath)
       = SyncHeader \o orgSectionMarker \o BlankLine \o last.templates.claudeMd
  /\ validateClaudeMd(fs).status = "pass"

\* what init holds for a target: the bundle's text for the issue templates, the
\* pull-request template and the selected workflows, its own texts for
\* dependabot.yml, the rules document and the settings file; NULL for a file
\* init does not target
InitTarget(templates, options, p) ==
  LET selected == determineWorkflows(templates.workflows, options)
      techStack == getTechStackForTemplate(options.template)
  IN CASE p = ClaudeMdPath ->
            IF Truthy(templates.claudeMd)
            THEN ProjectHeader(techStack) \o orgSectionMarker \o BlankLine
                   \o templates.claudeMd \o <<"n">>
            ELSE <<"L">> \o techStack \o <<"n", "D", "n">>
       [] p = SettingsPath   -> SettingsJson
       [] p = DependabotPath -> DependabotYml
       [] p = PrPath         -> BundleContent(templates, p)
       [] p.dir = "issue"    -> BundleContent(templates, p)
       [] p.dir = "workflows" ->
            IF \E i \in 1..Len(selected) : selected[i] = p.name
            THEN BundleContent(templates, p) ELSE NULL
       [] OTHER -> NULL

(***************************************************************************)
(* C19: init without --force leaves the content of every file that existed *)
(* before the run as it was and creates only missing files; init with      *)
(* --force leaves every file it targets with the template content; a file  *)
(* init does not target is never touched.                                  *)
(***************************************************************************)
C19_InitKeepsUnlessForce ==
  [][(last'.cmd = "init" /\ ~last'.caught) =>
       \A p \in AllPaths :
         LET target == InitTarget(last'.templates, last'.options, p) IN
         /\ (~last'.options.force /\ fs.files[p] # NULL) => fs'.files[p] = fs.files[p]
         /\ (last'.options.force /\ target # NULL) => fs'.files[p] = target
         /\ (fs.files[p] = NULL /\ target # NULL) => fs'.files[p] = target
         /\ target = NULL => fs'.files[p] = fs.files[p]]_vars

\* init without --force ran over the owner's dependabot.yml, ci.yml, settings
\* file and rules document, which hold their texts still, and created the
\* pull-request template
C19_Witness ==
  /\ last.cmd = "init" /\ ~last.options.force
  /\ readFile(fs, DependabotPath) = <<"u">>
  /\ readFile(fs, WorkflowPath(<<"ci", ".yml">>)) = <<"u">>
  /\ readFile(fs, SettingsPath) = <<"j">>
  /\ readFile(fs, ClaudeMdPath) = <<"p">>
  /\ readFile(fs, PrPath) = last.templates.prTemplate

\* the names of the results about .github and what it holds
StructuralNames ==
  {".github/", ".github/ISSUE_TEMPLATE/", ".github/PULL_REQUEST_TEMPLATE.md",
   ".github/dependabot.yml", ".github/workflows/", "CI workflow"}

\* the first result of a list that is about .github
FirstStructural(results) ==
  results[CHOOSE i \in 1..Len(results) :
            /\ results[i].name \in StructuralNames
            /\ \A j \in 1..(i - 1) : results[j].name \notin StructuralNames]

HasStructural(results) == \E i \in 1..Len(results) : results[i].name \in StructuralNames

(***************************************************************************)
(* C20, as claimed: validate on a working directory without .github        *)
(* directory reports, as its first result about .github, a fail with the   *)
(* fixable flag, and a score below 100.                                    *)
(***************************************************************************)
C20_NoGithubFails ==
  [][(last'.cmd = "validate" /\ ~dirExists(fs, "github"))
       => /\ HasStructural(last'.results)
          /\ FirstStructural(last'.results) = Result(".github/", "fail", TRUE)
          /\ last'.score < 100]_vars

(***************************************************************************)
(* C20, amended: validate in a git repository whose working directory has  *)
(* no .github directory reports, as its first result about .github, a fail *)
(* with the fixable flag, and a score, computed over all results, below    *)
(* 100; outside a git repository validate reports no result and no score.  *)
(***************************************************************************)
C20_NoGithubFailsInGitRepo ==
  [][(last'.cmd = "validate" /\ ~dirExists(fs, "github"))
       => IF dirExists(fs, "git")
          THEN /\ HasStructural(last'.results)
               /\ FirstStructural(last'.results) = Result(".github/", "fail", TRUE)
               /\ last'.score = scoreOf(last'.results)
               /\ last'.score < 100
          ELSE last'.results = <<>> /\ last'.exit = 1]_vars

\* validate, without --fix, in a git repository without .github whose rules
\* document and settings file pass: three of five results pass, the score is 60
C20_Witness ==
  /\ last.cmd = "validate" /\ ~last.fixed
  /\ dirExists(fs, "git") /\ ~dirExists(fs, "github")
  /\ FirstStructural(last.results) = Result(".github/", "fail", TRUE)
  /\ Len(last.results) = 5
  /\ last.score = 60

(***************************************************************************)
(* SpecAudit: validate over working directories that differ in every item  *)
(* it checks, against remotes whose rules text is short, long, blank or    *)
(* not to be had                                                           *)
(***************************************************************************)
\* a rules text longer than the part validateOrgSync compares
LongRules == [i \in 1..OrgPrefixLength |-> "a"] \o <<"b">>

\* rules documents: none, the owner's own, one synced to <<"a">>, and one that
\* holds the compared part of LongRules followed by other text
AuditRules ==
  { NULL, <<"p">>,
    SyncHeader \o orgSectionMarker \o BlankLine \o <<"a", "n">>,
    SyncHeader \o orgSectionMarker \o BlankLine
      \o [i \in 1..OrgPrefixLength |-> "a"] \o <<"c">> }

\* settings files: none, init's, an object without permissions.allow, the
\* JSON text null, and a text that is no JSON
AuditSettings == { NULL, SettingsJson, <<"j">>, <<"N">>, <<"z", "z">> }

AuditDirs ==
  { {"git"}, {"git", "claude"}, {"git", "github", "claude"},
    {"git", "github", "issue", "workflows", "claude"} }

AuditRemotes == {RulesRemote(t) : t \in {<<"a">>, <<>>, <<"n">>, LongRules}}

InitAudit ==
  /\ \E dirs \in AuditDirs, rules \in AuditRules, settings \in AuditSettings,
        bug \in {NULL, <<"a">>}, feat \in {NULL, <<"a">>}, pr \in {NULL, <<"a">>},
        dependabot \in {NULL, DependabotYml} :
       fs = Directory(dirs, (ClaudeMdPath :> rules) @@ (SettingsPath :> settings)
                              @@ (IssuePath(<<"bug", ".yml">>) :> bug)
                              @@ (IssuePath(<<"feat", ".yaml">>) :> feat)
                              @@ (PrPath :> pr) @@ (DependabotPath :> dependabot))
  /\ last = NoRun

ValidateAudit == ValidateCommand(AuditRemotes, RulesDowns, {FALSE})

SpecAudit == InitAudit /\ [][ValidateAudit]_vars

\* validate ran its checks to the end
Validated(run) == run.cmd = "validate" /\ run.exit = 0 /\ ~run.caught

\* the statuses of the results of a list that carry a name
StatusesNamed(results, name) ==
  {results[i].status : i \in {j \in 1..Len(results) : results[j].name = name}}

\* warn or pass by the presence of an item alone
ByPresence(present) == IF present THEN {"pass"} ELSE {"warn"}

(***************************************************************************)
(* C21, as claimed: every validate run has a result of its own for the     *)
(* issue-template directory, for the pull-request template and for         *)
(* dependabot.yml, each decided by that item alone, whatever the other     *)
(* checks give, also when .github itself is missing.                       *)
(***************************************************************************)
C21_StructuralChecksUnconditional ==
  [][Validated(last') =>
       /\ StatusesNamed(last'.results, ".github/ISSUE_TEMPLATE/")
            = ByPresence(\E f \in readdir(fs, "issue") : EndsWith(f, ".yml"))
       /\ StatusesNamed(last'.results, ".github/PULL_REQUEST_TEMPLATE.md")
            = ByPresence(pathExists(fs, PrPath))
       /\ StatusesNamed(last'.results, ".github/dependabot.yml")
            = ByPresence(pathExists(fs, DependabotPath))]_vars

(***************************************************************************)
(* C21, amended: when .github exists, every validate run has a result of   *)
(* its own for the issue-template directory (pass when it holds a .yml     *)
(* file), for the pull-request template and for dependabot.yml, each       *)
(* decided by that item alone; when .github is missing, the one result     *)
(* '.github/' fail stands in their place.                                  *)
(***************************************************************************)
C21_StructuralChecksUnderGithub ==
  [][Validated(last') =>
       IF dirExists(fs, "github")
       THEN /\ StatusesNamed(last'.results, ".github/ISSUE_TEMPLATE/")
                 = ByPresence(\E f \in readdir(fs, "issue") : EndsWith(f, ".yml"))
            /\ StatusesNamed(last'.results, ".github/PULL_REQUEST_TEMPLATE.md")
                 = ByPresence(pathExists(fs, PrPath))
            /\ StatusesNamed(last'.results, ".github/dependabot.yml")
                 = ByPresence(pathExists(fs, DependabotPath))
            /\ StatusesNamed(last'.results, ".github/") = {}
       ELSE /\ StatusesNamed(last'.results, ".github/") = {"fail"}
            /\ \A name \in {".github/ISSUE_TEMPLATE/", ".github/PULL_REQUEST_TEMPLATE.md",
                            ".github/dependabot.yml"} :
                 StatusesNamed(last'.results, name) = {}]_vars

\* validate, without sync, where the issue templates pass, the pull-request
\* template is missing and dependabot.yml is there
C21_Witness ==
  /\ Validated(last) /\ ~last.fixed
  /\ StatusesNamed(last.results, ".github/ISSUE_TEMPLATE/") = {"pass"}
  /\ StatusesNamed(last.results, ".github/PULL_REQUEST_TEMPLATE.md") = {"warn"}
  /\ StatusesNamed(last.results, ".github/dependabot.yml") = {"pass"}
  /\ ~pathExists(fs, PrPath) /\ pathExists(fs, DependabotPath)

\* piece occurs in text, character by character
OccursIn(text, piece) ==
  \E i \in 0..(Len(text) - Len(piece)) : \A j \in 1..Len(piece) : text[i + j] = piece[j]

\* the first OrgPrefixLength characters of the trimmed text
ComparedPart(orgContent) ==
  LET t == Trim(orgContent)
  IN [i \in 1..(IF Len(t) < OrgPrefixLength THEN Len(t) ELSE OrgPrefixLength) |-> t[i]]

\* the last result of a run, the one of validateOrgSync
OrgSyncResult(run) == run.results[Len(run.results)]

\* what the requests for the organisation rules can return
OrgContents(remotes, downs) ==
  {fetchGitHubFile(remote.claudeMd, <<"CLAUDE.md">>, down) :
     remote \in remotes, down \in downs}

(***************************************************************************)
(* C22, as claimed: the remote comparison of validate is pass when the     *)
(* first 100 characters of the trimmed remote rules occur in the local     *)
(* rules document, warn when they do not, warn when the fetch fails; it is *)
(* never fail.                                                             *)
(***************************************************************************)
C22_OrgSyncPassOrWarn ==
  [][Validated(last') =>
       /\ OrgSyncResult(last').name = "org sync"
       /\ OrgSyncResult(last').status \in {"pass", "warn"}
       /\ \A orgContent \in OrgContents(AuditRemotes, RulesDowns) :
            validateOrgSync(fs, orgContent).status
              = IF orgContent = NULL THEN "warn"
                ELSE IF /\ pathExists(fs, ClaudeMdPath)
                        /\ OccursIn(readFile(fs, ClaudeMdPath), ComparedPart(orgContent))
                THEN "pass" ELSE "warn"]_vars

(***************************************************************************)
(* C22, amended: the remote comparison of validate is warn when the fetch  *)
(* fails; otherwise fail when there is no local rules document, pass when  *)
(* the first 100 characters of the trimmed remote rules occur in the local *)
(* rules document and warn when they do not; the run's last result is the  *)
(* one of this check.                                                      *)
(***************************************************************************)
C22_OrgSyncFailsWithoutLocalRules ==
  [][Validated(last') =>
       /\ OrgSyncResult(last').name = "org sync"
       /\ OrgSyncResult(last') \in {validateOrgSync(fs, orgContent) :
                                      orgContent \in OrgContents(AuditRemotes, RulesDowns)}
       /\ \A orgContent \in OrgContents(AuditRemotes, RulesDowns) :
            validateOrgSync(fs, orgContent).status
              = IF orgContent = NULL THEN "warn"
                ELSE IF ~pathExists(fs, ClaudeMdPath) THEN "fail"
                ELSE IF OccursIn(readFile(fs, ClaudeMdPath), ComparedPart(orgContent))
                THEN "pass" ELSE "warn"]_vars

\* validate found the owner's rules document without the remote rules: a warn
\* that sync is said to fix, unlike the warn of a failed fetch
C22_Witness ==
  /\ Validated(last) /\ ~last.fixed
  /\ readFile(fs, ClaudeMdPath) = <<"p">>
  /\ OrgSyncResult(last) = Result("org sync", "warn", TRUE)

C28_BlankRemotePasses ==
  [][Validated(last') =>
       /\ OrgSyncResult(last') \in {validateOrgSync(fs, orgContent) :
                                      orgContent \in OrgContents(AuditRemotes, RulesDowns)}
       /\ \A orgContent \in OrgContents(AuditRemotes, RulesDowns) :
            (orgContent # NULL /\ IsBlank(orgContent) /\ pathExists(fs, ClaudeMdPath)) =>
              /\ ComparedPart(orgContent) = <<>>
              /\ validateOrgSync(fs, orgContent) = Result("org sync", "pass", FALSE)]_vars

\* validate passed the remote comparison on the owner's rules document, which
\* holds nothing of the organisation: the remote text was empty or blank
C28_Witness ==
  /\ Validated(last) /\ ~last.fixed
  /\ readFile(fs, ClaudeMdPath) = <<"p">>
  /\ OrgSyncResult(last) = Result("org sync", "pass", FALSE)

(***************************************************************************)
(* SpecPlan: sync over working directories whose templates, workflow and   *)
(* rules document are missing, equal to the remote ones or different, and  *)
(* over remotes of which one holds an empty pull-request template and an   *)
(* empty rules document                                                    *)
(***************************************************************************)
PlanRules == { NULL, <<"p">>, <<"p", "n">> \o orgSectionMarker \o BlankLine \o <<"a">> }

InitPlan ==
  /\ \E dirs \in FilesDirs, bug \in {NULL, <<"a">>, <<"u">>},
        pr \in {NULL, <<"a">>, <<"u">>},
        ci \in {NULL, <<"u">>}, rules \in PlanRules :
       fs = Directory(dirs, (IssuePath(<<"bug", ".yml">>) :> bug) @@ (PrPath :> pr)
                              @@ (WorkflowPath(<<"ci", ".yml">>) :> ci)
                              @@ (ClaudeMdPath :> rules))
  /\ last = NoRun

SyncPlan ==
  SyncCommand({RemoteA, RemoteB, RulesRemote(<<>>)},
              FilesDowns \cup { {<<"CLAUDE.md">>} }, {FALSE})

SpecPlan == InitPlan /\ [][SyncPlan]_vars

PlannedFiles(templates, hasPr, hasRules) ==
  [i \in 1..Len(templates.issueTemplates) |-> IssuePath(templates.issueTemplates[i].name)]
    \o (IF hasPr THEN <<PrPath>> ELSE <<>>)
    \o [i \in 1..Len(templates.workflows) |-> WorkflowPath(templates.workflows[i].name)]
    \o (IF hasRules THEN <<ClaudeMdPath>> ELSE <<>>)

(***************************************************************************)
(* C30, as claimed: sync reports one entry for each artifact of the bundle *)
(* that is not null or missing, in the order issue templates, pull-request *)
(* template, workflows, rules document, and no entry for the others.       *)
(***************************************************************************)
C30_OneEntryPerArtifact ==
  [][(last'.cmd = "sync" /\ ~last'.caught) =>
       [i \in 1..Len(last'.changes) |-> last'.changes[i].file]
         = PlannedFiles(last'.templates, last'.templates.prTemplate # NULL,
                        last'.templates.claudeMd # NULL)]_vars

(***************************************************************************)
(* C30, amended: sync reports one entry for each artifact of the bundle    *)
(* that is not null, missing or an empty text, in the order issue          *)
(* templates, pull-request template, workflows, rules document; for every  *)
(* other target it reports nothing and leaves the file as it was.          *)
(***************************************************************************)
C30_OneEntryPerNonEmptyArtifact ==
  [][(last'.cmd = "sync" /\ ~last'.caught) =>
       /\ [i \in 1..Len(last'.changes) |-> last'.changes[i].file]
            = PlannedFiles(last'.templates, Truthy(last'.templates.prTemplate),
                           Truthy(last'.templates.claudeMd))
       /\ \A p \in AllPaths :
            BundleContent(last'.templates, p) = NULL =>
              /\ ~Reported(last'.changes, p)
              /\ fs'.files[p] = fs.files[p]]_vars

\* a sync whose bundle held issue templates, a pull-request template and a
\* workflow but no rules document: three kinds of entries, and the local rules
\* document untouched
C30_Witness ==
  /\ Synced(last, FALSE) /\ ~last.caught
  /\ last.templates.claudeMd = NULL
  /\ Truthy(last.templates.prTemplate)
  /\ Len(last.templates.issueTemplates) = 2
  /\ Len(last.changes) = 2 + 1 + Len(last.templates.workflows)
  /\ Len(last.templates.workflows) >= 1
  /\ readFile(fs, ClaudeMdPath) = <<"p">>

(***************************************************************************)
(* SpecAgree: init, sync and validate one after the other in a git         *)
(* repository, over remotes whose rules text is short, longer than what    *)
(* validate compares, or quotes the marker, and whose issue templates are  *)
(* bug.yml and feat.yaml                                                   *)
(***************************************************************************)
\* RemoteA with each of the rules texts
AgreeRemotes ==
  {[RemoteA EXCEPT !.claudeMd = text] : text \in {<<"a">>, LongRules, <<"#", "M", "b">>}}

AgreeDowns == { {}, {<<"CLAUDE.md">>}, {<<"ISSUE_TEMPLATE", "bug", ".yml">>} }

InitAgree ==
  /\ \E rules \in PlanRules : fs = Directory({"git"}, (ClaudeMdPath :> rules))
  /\ last = NoRun

SyncAgree     == SyncCommand(AgreeRemotes, AgreeDowns, {FALSE})
InitAgreeRepo == InitCommand(AgreeRemotes, AgreeDowns, RulesInitOptions, {"none"})
ValidateAgree == ValidateCommand(AgreeRemotes, AgreeDowns, {FALSE})

NextAgree == SyncAgree \/ InitAgreeRepo \/ ValidateAgree

SpecAgree == InitAgree /\ [][NextAgree]_vars

\* the rules documents createLocalClaudeMd writes
LocalRules ==
  {readFile(createLocalClaudeMd(Directory({}, <<>>), options), ClaudeMdPath) :
     options \in RulesInitOptions}

\* what a step does to a rules document written by createLocalClaudeMd: init
\* without the remote rules writes such a document; sync reports nothing but
\* skip for it (one skip when its bundle holds a rules text) and validate
\* gives warn, and only init --force changes it, with the remote rules or to
\* the document of another technology stack
LocalRulesStep ==
  /\ (/\ last'.cmd = "init" /\ ~Truthy(last'.templates.claudeMd)
      /\ (last'.options.force \/ ~pathExists(fs, ClaudeMdPath))) =>
       /\ readFile(fs', ClaudeMdPath) \in LocalRules
       /\ ~HasMarker(fs')
  /\ readFile(fs, ClaudeMdPath) \in LocalRules =>
       /\ last'.cmd = "sync" =>
            /\ \A i \in 1..Len(last'.changes) :
                 last'.changes[i].file = ClaudeMdPath => last'.changes[i].action = "skip"
            /\ Truthy(last'.templates.claudeMd) => Reported(last'.changes, ClaudeMdPath)
            /\ readFile(fs', ClaudeMdPath) = readFile(fs, ClaudeMdPath)
       /\ last'.cmd = "validate" =>
            /\ last'.results[1] = Result("CLAUDE.md", "warn", TRUE)
            /\ readFile(fs', ClaudeMdPath) = readFile(fs, ClaudeMdPath)
       /\ readFile(fs', ClaudeMdPath) # readFile(fs, ClaudeMdPath) =>
            /\ last'.cmd = "init" /\ last'.options.force
            /\ Truthy(last'.templates.claudeMd) \/ readFile(fs', ClaudeMdPath) \in LocalRules

(***************************************************************************)
(* C26: the rules document init writes when it has no remote rules holds   *)
(* no marker; every later sync, whatever its bundle and flags, reports     *)
(* skip for it and leaves it as it is, never adding the organisation       *)
(* rules, and validate keeps giving warn for it, until init --force runs   *)
(* with the remote rules.                                                  *)
(***************************************************************************)
C26_LocalRulesNeverSynced == [][LocalRulesStep]_vars

\* sync fetched the organisation rules, reported skip for the rules document
\* of init's fallback and left it there
C26_Witness ==
  /\ Synced(last, FALSE) /\ ~last.caught /\ last.options.force
  /\ last.templates.claudeMd = LongRules
  /\ Reported(last.changes, ClaudeMdPath)
  /\ ActionFor(last.changes, ClaudeMdPath) = "skip"
  /\ readFile(fs, ClaudeMdPath) \in LocalRules

(***************************************************************************)
(* C27: when sync has created or updated the rules document from the       *)
(* remote rules text R, the validate that follows gives pass for the rules *)
(* document, and its remote comparison gives pass when its request         *)
(* returns the same R.                                                     *)
(***************************************************************************)
C27_SyncThenValidateAgree ==
  [][(/\ Synced(last, FALSE) /\ ~last.caught
      /\ Reported(last.changes, ClaudeMdPath)
      /\ ActionFor(last.changes, ClaudeMdPath) \in {"create", "update"}
      /\ last'.cmd = "validate") =>
       /\ Validated(last')
       /\ last'.results[1] = Result("CLAUDE.md", "pass", FALSE)
       /\ OrgSyncResult(last') \in {validateOrgSync(fs, orgContent) :
                                      orgContent \in OrgContents(AgreeRemotes, AgreeDowns)}
       /\ validateOrgSync(fs, last.templates.claudeMd)
            = Result("org sync", "pass", FALSE)]_vars

\* validate passed both checks on a document that only a sync updating the
\* owner's document from the long rules text can have written
C27_Witness ==
  /\ Validated(last) /\ ~last.fixed
  /\ readFile(fs, ClaudeMdPath)
       = <<"p", "n">> \o orgSectionMarker \o BlankLine \o LongRules
  /\ last.results[1] = Result("CLAUDE.md", "pass", FALSE)
  /\ OrgSyncResult(last) = Result("org sync", "pass", FALSE)

(***************************************************************************)
(* C29, as claimed: after a sync that was no dry run and whose bundle held *)
(* at least one issue template, named .yml or .yaml, the issue-template    *)
(* check of validate is pass.                                              *)
(***************************************************************************)
C29_SyncedTemplatesPass ==
  [][(/\ Synced(last, FALSE) /\ ~last.caught
      /\ Len(last.templates.issueTemplates) >= 1
      /\ last'.cmd = "validate") =>
       /\ Validated(last')
       /\ StatusesNamed(last'.results, ".github/ISSUE_TEMPLATE/") = {"pass"}]_vars

====
